---------------------------- MODULE Spec2Model ----------------------------
(***************************************************************************)
(* Model of src/SQL.py: a Streamlit page script over one SQLite table      *)
(* (personal_info).  The store is DatabaseManager (init_database,          *)
(* execute_query, execute_update); the operations are the page functions   *)
(* show_data_overview, add_info, edit_info and delete_info.                *)
(*                                                                         *)
(* Streamlit runs the whole script once per user interaction and per       *)
(* browser session, each session in its own thread of the one server       *)
(* process.  A script run is modelled as a sequence of steps, one per      *)
(* store call it makes: every store call opens its own connection, SQLite  *)
(* serialises the statements, and nothing else orders two sessions.        *)
(*                                                                         *)
(* The option lists of the source are Chinese string literals; the model   *)
(* writes them with the English names the specification uses.              *)
(***************************************************************************)
EXTENDS Integers, Sequences, FiniteSets, TLC

\* ------------------------------------------------------------------ bounds
\* Number of rows ever inserted (AUTOINCREMENT ids handed out).
MaxId == 2
\* Number of distinct values of CURRENT_TIMESTAMP (one-second resolution).
MaxTime == 1
\* Number of connections that can be left open at once.
MaxLeak == 1

\* Browser sessions running the script against the same database file.
Sessions == {1, 2}

\* ----------------------------------------------------------- option lists
CategoryOptions ==
    <<"honorific", "education", "competition", "certificate", "account", "other">>

PriorityOptions ==
    <<"high", "medium", "low">>

StatusOptions ==
    <<"in-progress", "completed", "not-started">>

\* Stands for the ValueError list.index raises when the value is not in the list.
ValueError == -1

\* list.index(v): the first position of v, counted from 0; ValueError when v is
\* not in the list.
index(opts, v) ==
    IF \E i \in 1..Len(opts) : opts[i] = v
    THEN (CHOOSE i \in 1..Len(opts) : opts[i] = v /\ \A j \in 1..(i - 1) : opts[j] # v) - 1
    ELSE ValueError

\* --------------------------------------------------------------- form data
\* The add form as rendered: empty title, first category, priority index=1,
\* first status, empty tags and notes.
Blank ==
    [title |-> "", category |-> "honorific", notes |-> "",
     priority |-> "medium", status |-> "in-progress", tags |-> ""]

\* The field values a user submits through the forms: the selectbox and radio
\* widgets return members of the option lists only.
FormInputs ==
    { Blank,
      [Blank EXCEPT !.title = "a"],
      [title |-> "b", category |-> "other", notes |-> "n",
       priority |-> "high", status |-> "completed", tags |-> "x,y"] }

\* Parameters a direct caller of the store can bind: any text, also values
\* outside the option lists.
StoreInputs ==
    FormInputs \cup
    { [title |-> "c", category |-> "misc", notes |-> "",
       priority |-> "urgent", status |-> "archived", tags |-> ""] }

\* "if not title": the empty string is falsy.
TitleAlwaysGiven(title) ==
    FALSE

TitleMissing(title) ==
    title = ""

\* ------------------------------------------------------------ widget state
NoRequest ==
    [page |-> "none", f |-> Blank, submitted |-> FALSE, option |-> "single",
     record_id |-> 1, confirm |-> FALSE, pressed |-> FALSE]

\* The widget state a script run starts with: the menu entry, and the values of
\* the widgets of that page.
Requests ==
    { [NoRequest EXCEPT !.page = "overview"] }
    \cup { [NoRequest EXCEPT !.page = "add"], [NoRequest EXCEPT !.page = "edit"] }
    \cup { [NoRequest EXCEPT !.page = p, !.f = f, !.submitted = TRUE] :
             p \in {"add", "edit"}, f \in FormInputs }
    \cup { [NoRequest EXCEPT !.page = "delete"] }
    \cup { [NoRequest EXCEPT !.page = "delete", !.record_id = i, !.pressed = TRUE] :
             i \in 1..MaxId }
    \cup { [NoRequest EXCEPT !.page = "delete", !.option = "all",
                             !.confirm = c, !.pressed = b] :
             c \in BOOLEAN, b \in BOOLEAN }

\* ------------------------------------------------------------------- state
VARIABLES
    table,       \* rows of personal_info
    seq,         \* sqlite_sequence.seq of personal_info (AUTOINCREMENT)
    now,         \* CURRENT_TIMESTAMP
    openConns,   \* connections opened by a finished store call and not closed
    pc,          \* per session: position in the script run
    req,         \* per session: widget state of the run
    record_id,   \* per session: record_id of edit_info / delete_info
    result,      \* per session: what the last run reported
    displayed,   \* per session: ids of the rows st.dataframe showed, in order
    usedIds,     \* history: every id an INSERT assigned
    anyDelete    \* history: a DELETE statement has been executed

vars ==
    <<table, seq, now, openConns, pc, req, record_id, result, displayed,
      usedIds, anyDelete>>

Ids(t) ==
    {r.id : r \in t}

Max(S) ==
    CHOOSE x \in S : \A y \in S : y <= x

\* -------------------------------------------------------------- statements
\* Rowid of an INTEGER PRIMARY KEY AUTOINCREMENT column: one more than the
\* largest rowid the table ever held.
NextRowidNoAutoincrement(t, s) ==
    Max(Ids(t) \cup {0}) + 1

NextRowid(t, s) ==
    Max(Ids(t) \cup {s}) + 1

\* INSERT INTO personal_info (title, category, notes, priority, status, tags)
\* VALUES (?, ?, ?, ?, ?, ?): id from AUTOINCREMENT, created_at from the default.
InsertRow(t, s, f, ts) ==
    t \cup { [id |-> NextRowid(t, s), title |-> f.title, category |-> f.category,
              notes |-> f.notes, priority |-> f.priority, status |-> f.status,
              tags |-> f.tags, created_at |-> ts] }

\* UPDATE personal_info SET title = ?, ..., tags = ? WHERE id = ?
UpdateRowsAll(t, f, i) ==
    { [r EXCEPT !.title = f.title, !.category = f.category, !.notes = f.notes,
                !.priority = f.priority, !.status = f.status, !.tags = f.tags] :
      r \in t }

UpdateRows(t, f, i) ==
    { IF r.id = i
      THEN [r EXCEPT !.title = f.title, !.category = f.category, !.notes = f.notes,
                     !.priority = f.priority, !.status = f.status, !.tags = f.tags]
      ELSE r : r \in t }

\* DELETE FROM personal_info WHERE id = ?
DeleteRow(t, i) ==
    {r \in t : r.id # i}

\* SELECT * FROM personal_info WHERE id = ?
SelectById(t, i) ==
    {r \in t : r.id = i}

\* The orders a result set of the rows S can come in.
Orderings(S) ==
    {p \in [1..Cardinality(S) -> S] : \A i, j \in 1..Cardinality(S) : i # j => p[i] # p[j]}

\* SELECT * FROM personal_info ORDER BY created_at DESC: rows with the same
\* created_at come in an order the engine does not specify.
SelectUnordered(t) ==
    Orderings(t)

SelectOrderByCreatedAtDesc(t) ==
    {p \in Orderings(t) :
        \A i, j \in 1..Len(p) : i < j => p[i].created_at >= p[j].created_at}

\* ------------------------------------------------------------- connections
\* How a store call ends: it returns, or the statement (or the commit) raises
\* after get_connection opened the connection.
Outcomes ==
    {"ok", "exec_error"}

\* conn.close() is the last statement of each store method and is skipped when
\* the statement raises: the connection stays open until it is finalized.
CanEnd(o) ==
    o = "exec_error" => openConns < MaxLeak

AfterCall(o) ==
    IF o = "exec_error" THEN openConns + 1 ELSE openConns

\* ------------------------------------------------------------------- steps
Init ==
    /\ table = {}
    /\ seq = 0
    /\ now = 0
    /\ openConns = 0
    /\ pc = [s \in Sessions |-> "idle"]
    /\ req = [s \in Sessions |-> NoRequest]
    /\ record_id = [s \in Sessions |-> 0]
    /\ result = [s \in Sessions |-> "none"]
    /\ displayed = [s \in Sessions |-> <<>>]
    /\ usedIds = {}
    /\ anyDelete = FALSE

\* The run of session s ends reporting r.
EndRun(s, r) ==
    /\ pc' = [pc EXCEPT ![s] = "idle"]
    /\ req' = [req EXCEPT ![s] = NoRequest]
    /\ record_id' = [record_id EXCEPT ![s] = 0]
    /\ result' = [result EXCEPT ![s] = r]

\* A store call of session s raised: the exception ends the run.
Raise(s, o) ==
    /\ openConns' = AfterCall(o)
    /\ EndRun(s, "storage_error")

\* A user interaction starts a run of the script: the module level constructs
\* DatabaseManager, which calls init_database (CREATE TABLE IF NOT EXISTS).
init_database(s) ==
    /\ pc[s] = "idle"
    /\ \E o \in Outcomes :
        /\ CanEnd(o)
        /\ IF o # "ok"
           THEN /\ openConns' = AfterCall(o)
                /\ pc' = pc
                /\ req' = [req EXCEPT ![s] = NoRequest]
                /\ result' = [result EXCEPT ![s] = "storage_error"]
           ELSE \E r \in Requests :
                /\ pc' = [pc EXCEPT ![s] = "run"]
                /\ req' = [req EXCEPT ![s] = r]
                /\ result' = [result EXCEPT ![s] = "none"]
                /\ UNCHANGED openConns
    /\ displayed' = [displayed EXCEPT ![s] = <<>>]
    /\ UNCHANGED <<table, seq, now, record_id, usedIds, anyDelete>>

show_data_overview(s) ==
    /\ pc[s] = "run"
    /\ req[s].page = "overview"
    /\ \E o \in Outcomes :
        /\ CanEnd(o)
        /\ IF o # "ok"
           THEN Raise(s, o) /\ UNCHANGED displayed
           ELSE \E df \in SelectOrderByCreatedAtDesc(table) :
                /\ displayed' = [displayed EXCEPT ![s] = [i \in 1..Len(df) |-> df[i].id]]
                /\ EndRun(s, IF df = <<>> THEN "no_data" ELSE "listed")
                /\ UNCHANGED openConns
    /\ UNCHANGED <<table, seq, now, usedIds, anyDelete>>

add_info(s) ==
    /\ pc[s] = "run"
    /\ req[s].page = "add"
    /\ IF ~req[s].submitted
       THEN /\ EndRun(s, "none")
            /\ UNCHANGED <<table, seq, usedIds, openConns>>
       ELSE IF TitleMissing(req[s].f.title)
       THEN /\ EndRun(s, "add_title_required")
            /\ UNCHANGED <<table, seq, usedIds, openConns>>
       ELSE /\ seq < MaxId
            /\ \E o \in Outcomes :
                /\ CanEnd(o)
                /\ IF o # "ok"
                   THEN Raise(s, o) /\ UNCHANGED <<table, seq, usedIds>>
                   ELSE /\ table' = InsertRow(table, seq, req[s].f, now)
                        /\ seq' = NextRowid(table, seq)
                        /\ usedIds' = usedIds \cup {NextRowid(table, seq)}
                        /\ EndRun(s, "added")
                        /\ UNCHANGED openConns
    /\ UNCHANGED <<now, displayed, anyDelete>>

\* edit_info up to the UPDATE: the query, the selection of a row of the result,
\* the pre-population of the form (list.index of the row's category, priority and
\* status) and the validation of the submitted title.
Prepopulate(r) ==
    /\ index(CategoryOptions, r.category) # ValueError
    /\ index(PriorityOptions, r.priority) # ValueError
    /\ index(StatusOptions, r.status) # ValueError

edit_info(s) ==
    /\ pc[s] = "run"
    /\ req[s].page = "edit"
    /\ \E o \in Outcomes :
        /\ CanEnd(o)
        /\ IF o # "ok"
           THEN Raise(s, o)
           ELSE IF table = {}
           THEN EndRun(s, "no_data") /\ UNCHANGED openConns
           ELSE \E record_data \in table :
                /\ IF ~Prepopulate(record_data)
                   THEN EndRun(s, "value_error")
                   ELSE IF ~req[s].submitted
                   THEN EndRun(s, "none")
                   ELSE IF TitleMissing(req[s].f.title)
                   THEN EndRun(s, "edit_title_required")
                   ELSE /\ pc' = [pc EXCEPT ![s] = "edit_update"]
                        /\ record_id' = [record_id EXCEPT ![s] = record_data.id]
                        /\ UNCHANGED <<req, result>>
                /\ UNCHANGED openConns
    /\ UNCHANGED <<table, seq, now, displayed, usedIds, anyDelete>>

\* The UPDATE of edit_info, and the success message that follows it.
edit_info_update(s) ==
    /\ pc[s] = "edit_update"
    /\ \E o \in Outcomes :
        /\ CanEnd(o)
        /\ IF o # "ok"
           THEN Raise(s, o) /\ UNCHANGED table
           ELSE /\ table' = UpdateRows(table, req[s].f, record_id[s])
                /\ EndRun(s, "updated")
                /\ UNCHANGED openConns
    /\ UNCHANGED <<seq, now, displayed, usedIds, anyDelete>>

\* "if confirm: if st.button(...)": the gate in front of DELETE FROM personal_info.
DeleteAllUngated(confirm, pressed) ==
    pressed

DeleteAllGate(confirm, pressed) ==
    confirm /\ pressed

\* delete_info up to its second store call: the query and the widgets.
delete_info(s) ==
    /\ pc[s] = "run"
    /\ req[s].page = "delete"
    /\ \E o \in Outcomes :
        /\ CanEnd(o)
        /\ IF o # "ok"
           THEN Raise(s, o)
           ELSE /\ IF table = {}
                   THEN EndRun(s, "no_data")
                   ELSE IF req[s].option = "single"
                   THEN IF req[s].pressed
                        THEN /\ pc' = [pc EXCEPT ![s] = "delete_check"]
                             /\ record_id' = [record_id EXCEPT ![s] = req[s].record_id]
                             /\ UNCHANGED <<req, result>>
                        ELSE EndRun(s, "none")
                   ELSE IF DeleteAllGate(req[s].confirm, req[s].pressed)
                        THEN /\ pc' = [pc EXCEPT ![s] = "delete_all"]
                             /\ UNCHANGED <<req, result, record_id>>
                        ELSE EndRun(s, "none")
                /\ UNCHANGED openConns
    /\ UNCHANGED <<table, seq, now, displayed, usedIds, anyDelete>>

\* "check_record.empty": the existence check in front of the DELETE.
RecordAlwaysFound(check_record) ==
    FALSE

RecordMissing(check_record) ==
    check_record = {}

\* SELECT * FROM personal_info WHERE id = ? and the branch on its result.
delete_info_check(s) ==
    /\ pc[s] = "delete_check"
    /\ \E o \in Outcomes :
        /\ CanEnd(o)
        /\ IF o # "ok"
           THEN Raise(s, o)
           ELSE /\ IF RecordMissing(SelectById(table, record_id[s]))
                   THEN EndRun(s, "not_found")
                   ELSE /\ pc' = [pc EXCEPT ![s] = "delete_exec"]
                        /\ UNCHANGED <<req, result, record_id>>
                /\ UNCHANGED openConns
    /\ UNCHANGED <<table, seq, now, displayed, usedIds, anyDelete>>

\* DELETE FROM personal_info WHERE id = ?
delete_info_delete(s) ==
    /\ pc[s] = "delete_exec"
    /\ \E o \in Outcomes :
        /\ CanEnd(o)
        /\ IF o # "ok"
           THEN Raise(s, o) /\ UNCHANGED <<table, anyDelete>>
           ELSE /\ table' = DeleteRow(table, record_id[s])
                /\ anyDelete' = TRUE
                /\ EndRun(s, "deleted")
                /\ UNCHANGED openConns
    /\ UNCHANGED <<seq, now, displayed, usedIds>>

\* DELETE FROM personal_info
delete_info_delete_all(s) ==
    /\ pc[s] = "delete_all"
    /\ \E o \in Outcomes :
        /\ CanEnd(o)
        /\ IF o # "ok"
           THEN Raise(s, o) /\ UNCHANGED <<table, anyDelete>>
           ELSE /\ table' = {}
                /\ anyDelete' = TRUE
                /\ EndRun(s, "deleted_all")
                /\ UNCHANGED openConns
    /\ UNCHANGED <<seq, now, displayed, usedIds>>

Tick ==
    /\ now < MaxTime
    /\ now' = now + 1
    /\ UNCHANGED <<table, seq, openConns, pc, req, record_id, result, displayed,
                   usedIds, anyDelete>>

\* An unreferenced sqlite3.Connection is closed when the interpreter finalizes it.
Finalize ==
    /\ openConns > 0
    /\ openConns' = openConns - 1
    /\ UNCHANGED <<table, seq, now, pc, req, record_id, result, displayed,
                   usedIds, anyDelete>>

\* A caller of the store other than the forms: execute_update with the INSERT
\* statement and parameters of its own.  The table constrains title to NOT NULL
\* and nothing else.
execute_update(f) ==
    /\ seq < MaxId
    /\ \E o \in Outcomes :
        /\ CanEnd(o)
        /\ IF o # "ok"
           THEN /\ openConns' = AfterCall(o)
                /\ UNCHANGED <<table, seq, usedIds>>
           ELSE /\ table' = InsertRow(table, seq, f, now)
                /\ seq' = NextRowid(table, seq)
                /\ usedIds' = usedIds \cup {NextRowid(table, seq)}
                /\ UNCHANGED openConns
    /\ UNCHANGED <<now, pc, req, record_id, result, displayed, anyDelete>>

Next ==
    \/ \E s \in Sessions : init_database(s)
    \/ \E s \in Sessions : show_data_overview(s)
    \/ \E s \in Sessions : add_info(s)
    \/ \E s \in Sessions : edit_info(s)
    \/ \E s \in Sessions : edit_info_update(s)
    \/ \E s \in Sessions : delete_info(s)
    \/ \E s \in Sessions : delete_info_check(s)
    \/ \E s \in Sessions : delete_info_delete(s)
    \/ \E s \in Sessions : delete_info_delete_all(s)
    \/ Tick
    \/ Finalize

\* The forms are the only writers.
Spec ==
    Init /\ [][Next]_vars

NextStore ==
    \/ Next
    \/ \E f \in StoreInputs : execute_update(f)

\* The forms, and callers that use the store directly.
SpecStore ==
    Init /\ [][NextStore]_vars

\* ------------------------------------------------------------------ claims
RowOf(t, i) ==
    CHOOSE r \in t : r.id = i

Fields(r) ==
    [title |-> r.title, category |-> r.category, notes |-> r.notes,
     priority |-> r.priority, status |-> r.status, tags |-> r.tags]

\* C1: an UPDATE of edit_info that finds no row with its id does not report
\* success (it fails with a not-found error) and leaves the table as it was.
C1_UpdateOfAbsentIdFails ==
    [][\A s \in Sessions :
        (/\ pc[s] = "edit_update"
         /\ pc'[s] = "idle"
         /\ record_id[s] \notin Ids(table)
         /\ result'[s] # "storage_error")
        => (result'[s] = "not_found" /\ table' = table)]_vars

\* C2: between store calls no connection is open: every call closed the
\* connection it opened, also when its statement raised.
C2_ConnectionsReleased ==
    openConns = 0

\* C3: an INSERT of add_info with a non-empty title that the engine executes
\* reports success and adds exactly one row, whose id was never assigned before
\* and is greater than every id assigned before, whatever was deleted meanwhile.
C3_InsertAssignsFreshIncreasingId ==
    [][\A s \in Sessions :
        (/\ pc[s] = "run"
         /\ pc'[s] = "idle"
         /\ req[s].page = "add"
         /\ req[s].submitted
         /\ req[s].f.title # ""
         /\ result'[s] # "storage_error")
        => (/\ result'[s] = "added"
            /\ \E r \in table' :
                /\ r \notin table
                /\ table' = table \cup {r}
                /\ Fields(r) = req[s].f
                /\ r.id \notin usedIds
                /\ r.id \notin Ids(table)
                /\ \A i \in usedIds : r.id > i
                /\ usedIds' = usedIds \cup {r.id})]_vars

\* C3 witness: an insert succeeded after a row had been deleted.
C3_Witness ==
    \E s \in Sessions :
        /\ result[s] = "added"
        /\ anyDelete
        /\ usedIds = {1, 2}
        /\ Ids(table) = {2}

\* The overview step of session s: the query of show_data_overview returned.
Listed(s) ==
    /\ pc[s] = "run"
    /\ pc'[s] = "idle"
    /\ req[s].page = "overview"
    /\ result'[s] # "storage_error"
    /\ ~anyDelete

\* C4 as claimed: after N inserts and no delete the overview shows N rows, and of
\* any two of them the one inserted later comes first, also when both have the
\* same created_at.
C4_LaterInsertedFirst ==
    [][\A s \in Sessions :
        Listed(s)
        => (/\ Len(displayed'[s]) = Cardinality(usedIds)
            /\ \A i, j \in 1..Len(displayed'[s]) :
                i < j => displayed'[s][i] > displayed'[s][j])]_vars

\* C4 as amended: after N inserts and no delete the overview shows exactly the N
\* rows of the table, in descending order of created_at: of two rows with
\* different created_at the one with the later created_at comes first.
C4_ListOrderedByCreatedAt ==
    [][\A s \in Sessions :
        Listed(s)
        => (/\ Len(displayed'[s]) = Cardinality(usedIds)
            /\ {displayed'[s][i] : i \in 1..Len(displayed'[s])} = Ids(table)
            /\ \A i, j \in 1..Len(displayed'[s]) :
                /\ i # j => displayed'[s][i] # displayed'[s][j]
                /\ i < j => RowOf(table, displayed'[s][i]).created_at
                              >= RowOf(table, displayed'[s][j]).created_at)]_vars

\* C4 witness: the overview showed two rows with different created_at, the
\* later one first.
C4_Witness ==
    \E s \in Sessions :
        /\ result[s] = "listed"
        /\ ~anyDelete
        /\ displayed[s] = <<2, 1>>
        /\ Ids(table) = {1, 2}
        /\ RowOf(table, 2).created_at > RowOf(table, 1).created_at

\* C5: an UPDATE of edit_info on an id the table holds, with a non-empty title,
\* replaces title, category, notes, priority, status and tags of that row by
\* the submitted values, keeps its id and created_at, leaves every other row
\* as it was, and a read of that id returns the new row.
C5_UpdateReplacesMutableFieldsOnly ==
    [][\A s \in Sessions :
        (/\ pc[s] = "edit_update"
         /\ pc'[s] = "idle"
         /\ record_id[s] \in Ids(table)
         /\ result'[s] # "storage_error")
        => (/\ result'[s] = "updated"
            /\ req[s].f.title # ""
            /\ \E old \in table, new \in table' :
                /\ old.id = record_id[s]
                /\ new.id = old.id
                /\ new.created_at = old.created_at
                /\ Fields(new) = req[s].f
                /\ table' \ {new} = table \ {old}
                /\ SelectById(table', record_id[s]) = {new})]_vars

\* C5 witness: an update succeeded on a table of two rows, and changed one.
C5_Witness ==
    \E s \in Sessions :
        /\ result[s] = "updated"
        /\ Ids(table) = {1, 2}
        /\ RowOf(table, 1).title = "b"
        /\ RowOf(table, 2).title = "a"
        /\ RowOf(table, 2).created_at = RowOf(table, 1).created_at

\* C6: the existence check of delete_info on an id the table does not hold
\* reports not-found, ends the run before the DELETE, and leaves the table as
\* it was.
C6_DeleteOfAbsentIdFails ==
    [][\A s \in Sessions :
        (/\ pc[s] = "delete_check"
         /\ pc'[s] # "delete_check"
         /\ record_id[s] \notin Ids(table)
         /\ result'[s] # "storage_error")
        => (/\ result'[s] = "not_found"
            /\ pc'[s] = "idle"
            /\ table' = table
            /\ anyDelete' = anyDelete)]_vars

\* C6 witness: a delete of an absent id was refused while the table held a row.
C6_Witness ==
    \E s \in Sessions :
        /\ result[s] = "not_found"
        /\ pc[s] = "idle"
        /\ table # {}
        /\ ~anyDelete

\* C7: a form submitted with an empty title, on the add page or on the edit
\* page, ends the run with the validation error, without an INSERT or UPDATE,
\* and leaves the table as it was.
C7_EmptyTitleRejected ==
    [][\A s \in Sessions :
        (/\ pc[s] = "run"
         /\ pc'[s] # "run"
         /\ req[s].page \in {"add", "edit"}
         /\ req[s].submitted
         /\ req[s].f.title = "")
        => (/\ pc'[s] = "idle"
            /\ table' = table
            /\ seq' = seq
            /\ usedIds' = usedIds
            /\ req[s].page = "add" => result'[s] = "add_title_required"
            /\ (req[s].page = "edit" /\ table # {} /\ result'[s] # "storage_error")
                 => result'[s] = "edit_title_required")]_vars

\* C7 witness: both forms have refused an empty title.
C7_Witness ==
    /\ result[1] = "add_title_required"
    /\ result[2] = "edit_title_required"
    /\ table # {}

\* C8: every row of the table has a non-empty title, and no two rows have the
\* same id.
C8_TitleNonEmptyAndIdUnique ==
    /\ \A r \in table : r.title # ""
    /\ \A r1, r2 \in table : r1.id = r2.id => r1 = r2

\* C8 witness: a table that went through insert, update and delete.
C8_Witness ==
    /\ anyDelete
    /\ table # {}
    /\ \E s \in Sessions : result[s] = "updated"
    /\ \E s \in Sessions : result[s] = "deleted"

\* C9: DELETE FROM personal_info is executed only for a widget state with the
\* delete-all option, the confirmation checked and the button pressed, and it
\* leaves the table empty.
C9_DeleteAllGatedAndTotal ==
    [][\A s \in Sessions :
        (/\ pc[s] = "delete_all"
         /\ pc'[s] # "delete_all")
        => (/\ req[s].option = "all"
            /\ req[s].confirm
            /\ req[s].pressed
            /\ result'[s] # "storage_error"
                 => (result'[s] = "deleted_all" /\ table' = {}))]_vars

\* C9 witness: delete-all emptied a table that had held two rows.
C9_Witness ==
    \E s \in Sessions :
        /\ result[s] = "deleted_all"
        /\ table = {}
        /\ usedIds = {1, 2}

\* C10: no run ends in the ValueError of the form's pre-population, whatever
\* category, priority and status the rows of the table hold.
C10_OutOfEnumerationTolerated ==
    \A s \in Sessions : result[s] # "value_error"

=============================================================================
